---- MODULE Spec2Model ----
(***************************************************************************)
(* The incremental synchronisation engine of crtx-sg/dcqs                  *)
(* (src/pacs-query.py): the processed-UID ledger, the change detector      *)
(* (query_for_new_studies), the retriever (retrieve_and_save_study) and    *)
(* the orchestrator (main), run after run, with the failures the remote    *)
(* archive and the local file system can produce and with the process      *)
(* being killed at any point of a run.                                     *)
(*                                                                         *)
(* Environment of Spec: one run at a time; every RemoteID carries its own  *)
(* StudyInstanceUID; the process can be killed between any two steps, and  *)
(* a ledger append is then either wholly on disk or not at all.  What the  *)
(* catalog answers (candidate list, metadata, clock) is an input of the    *)
(* step that asks for it.  Time is counted in half seconds.  No bound on   *)
(* the number of runs.  SpecTwice is the program run twice, each run to    *)
(* its end, the second run knowing what the first one had selected.        *)
(***************************************************************************)
EXTENDS Integers, Sequences, FiniteSets, TLC

\* ---------------------------------------------------------------- bounds
NumStudies == 2      \* studies (RemoteIDs) the archive holds
NumInstances == 2    \* instances of every study, over all its series
MaxLines == 3        \* lines of a ledger file found by the first run (SpecLoad)
MaxDay == 3          \* days the two filters of the detector are tried on (SpecFilter)

\* ------------------------------------------------------ program constants
\* An instant is a number of ticks, two to the second: datetime.now() and a
\* DICOM StudyTime both go below the second, strptime's %S does not.
TicksPerSecond == 2
TicksPerHour == 60 * 60 * TicksPerSecond
TicksPerDay == 24 * TicksPerHour
QUERY_WINDOW == 60 * 60 * TicksPerSecond      \* timedelta(minutes=60)

RemoteIDs == 1..NumStudies
Digits == <<"1", "2", "3", "4", "5", "6", "7", "8", "9">>

\* The StudyInstanceUID the archive holds for a RemoteID, as text.
UidOf(r) == <<"1", ".", Digits[r]>>

\* An absent DICOM tag is the empty sequence (dict.get returns None), a
\* present one a sequence of one value.
Absent == <<>>

\* StudyDate: absent, a day, or text that is no date.
DateTags == {Absent} \cup {<<[ok |-> TRUE, day |-> d]>> : d \in {1, 2}}
                     \cup {<<[ok |-> FALSE, day |-> 0]>>}
\* StudyTime: absent, a time of day (00:00:00 or 23:00:00.5), or text that is no time.
TimeTags == {Absent,
             <<[ok |-> TRUE, tick |-> 0]>>,
             <<[ok |-> TRUE, tick |-> (23 * TicksPerHour) + 1]>>,
             <<[ok |-> FALSE, tick |-> 0]>>}

\* MainDicomTags of a study as one GET returns them.
MetaValues(r) == [uid : {Absent, UidOf(r)}, date : DateTags, time : TimeTags]

\* datetime.now() of a run: 00:00:00.5 of day 2, so the window starts at
\* 23:00:00.5 of day 1.
NowValues == {(2 * TicksPerDay) + 1}

\* What client.post_tools_find can return: RemoteIDs, each at most once, in any order.
CandidateLists ==
    {s \in UNION {[1..n -> RemoteIDs] : n \in 0..NumStudies} :
        \A i, j \in DOMAIN s : i # j => s[i] # s[j]}

Range(s) == {s[i] : i \in DOMAIN s}

\* ------------------------------------------------------------- the ledger
Newline == "\n"
Whitespace == {" ", Newline}

\* Iterating a text file: the lines, each with its newline, the last one perhaps without.
SplitLines(text) ==
    LET nl == {i \in 1..Len(text) : text[i] = Newline}
        starts == {s \in {1} \cup {i + 1 : i \in nl} : s <= Len(text)}
        EndOf(s) == IF \E j \in nl : j >= s
                    THEN CHOOSE j \in nl : j >= s /\ \A k \in nl : k >= s => j <= k
                    ELSE Len(text)
        Nth(k) == CHOOSE s \in starts : Cardinality({t \in starts : t <= s}) = k
    IN [k \in 1..Cardinality(starts) |-> SubSeq(text, Nth(k), EndOf(Nth(k)))]

\* str.strip(): leading and trailing whitespace removed.
Strip(line) ==
    LET keep == {i \in 1..Len(line) : line[i] \notin Whitespace}
    IN IF keep = {} THEN <<>>
       ELSE LET a == CHOOSE i \in keep : \A j \in keep : i <= j
                b == CHOOSE i \in keep : \A j \in keep : j <= i
            IN SubSeq(line, a, b)

\* As load_processed_uids, without "if line.strip()".
load_keeping_blank_lines(file) ==
    IF ~file.exists THEN {}
    ELSE {Strip(l) : l \in Range(SplitLines(file.text))}

\* load_processed_uids: the empty set when the file does not exist, else the
\* stripped non-blank lines.
load_processed_uids(file) ==
    IF ~file.exists THEN {}
    ELSE {Strip(l) : l \in {x \in Range(SplitLines(file.text)) : Strip(x) # <<>>}}

\* As save_processed_uid, what was written not reaching the file.
save_unflushed(file, uid) ==
    [exists |-> TRUE, text |-> file.text]

\* As save_processed_uid, the file opened with 'w'.
save_truncating(file, uid) ==
    [exists |-> TRUE, text |-> uid \o <<Newline>>]

\* As save_processed_uid, the line not ended.
save_without_newline(file, uid) ==
    [exists |-> TRUE, text |-> file.text \o uid]

\* save_processed_uid: open(..., 'a') creates the file, write(uid + '\n') appends.
save_processed_uid(file, uid) ==
    [exists |-> TRUE, text |-> file.text \o uid \o <<Newline>>]

\* ------------------------------------------------------- the file system
\* As MakeDirs, without exist_ok: an existing directory is FileExistsError.
MakeDirsNotExistOk(ds, d) == [ok |-> d \notin ds, dirs |-> ds \cup {d}]

\* os.makedirs(path, exist_ok=True): an existing directory is no error.
MakeDirs(ds, d) == [ok |-> TRUE, dirs |-> ds \cup {d}]

\* open(path, 'wb') and write: an existing file is replaced.
WriteFile(fs, f) == [ok |-> TRUE, files |-> fs \cup {f}]

InstanceFiles(uid) == {<<uid, i>> : i \in 1..NumInstances}

\* --------------------------------------------------- the change detector
\* study_time_str.split('.')[0]: the fraction of a second is dropped.
SplitFraction(t) == [t EXCEPT !.tick = t.tick - (t.tick % TicksPerSecond)]

\* datetime.strptime(date + time, '%Y%m%d%H%M%S'): ValueError on text that is
\* no date or time, and on a fraction, which %S does not take.
Strptime(d, t) ==
    IF d.ok /\ t.ok /\ t.tick % TicksPerSecond = 0
    THEN [ok |-> TRUE, value |-> (d.day * TicksPerDay) + t.tick]
    ELSE [ok |-> FALSE, value |-> 0]

\* main_info.get('StudyTime', '000000')
StudyTimeOf(m) == IF m.time = Absent THEN [ok |-> TRUE, tick |-> 0] ELSE m.time[1]

\* As QueryDate, the date taken from now, not from the window start.
QueryDateOfNow(start) == (start + QUERY_WINDOW) \div TicksPerDay

\* query_date = start_time.strftime('%Y%m%d'): the day of the window start.
QueryDate(start) == start \div TicksPerDay

\* 'StudyDate': f'{query_date}-': the catalog returns the studies of that day
\* and of later days.
CoarseFilter(day, query_date) == day >= query_date

\* study_datetime >= start_time
InWindowTest(t, start) == t >= start

\* As Examine, the ledger not consulted.
ExamineIgnoringLedger(m, processed, start) ==
    IF m.uid = Absent THEN "WarnNoUid"
    ELSE IF m.date = Absent THEN "SkipNoDate"
    ELSE LET p == Strptime(m.date[1], SplitFraction(StudyTimeOf(m)))
         IN IF ~p.ok THEN "WarnParse"
            ELSE IF InWindowTest(p.value, start) THEN "Found"
            ELSE "SkipOld"

\* As Examine, a study without StudyInstanceUID not turned away.
ExamineWithoutUidCheck(m, processed, start) ==
    IF m.uid \in processed THEN "SkipProcessed"
    ELSE IF m.date = Absent THEN "SkipNoDate"
    ELSE LET p == Strptime(m.date[1], SplitFraction(StudyTimeOf(m)))
         IN IF ~p.ok THEN "WarnParse"
            ELSE IF InWindowTest(p.value, start) THEN "Found"
            ELSE "SkipOld"

\* The body of the loop of query_for_new_studies for one candidate whose
\* metadata was read: what the detector does with it.
Examine(m, processed, start) ==
    IF m.uid = Absent THEN "WarnNoUid"
    ELSE IF m.uid \in processed THEN "SkipProcessed"
    ELSE IF m.date = Absent THEN "SkipNoDate"
    ELSE LET p == Strptime(m.date[1], SplitFraction(StudyTimeOf(m)))
         IN IF ~p.ok THEN "WarnParse"
            ELSE IF InWindowTest(p.value, start) THEN "Found"
            ELSE "SkipOld"

\* The line the detector prints for a candidate; a silent skip prints nothing.
PrintedBy(v) == IF v \in {"WarnNoUid", "WarnParse", "Found"} THEN v ELSE ""

VARIABLES
    ledger,          \* PROCESSED_UIDS_FILE: [exists, text]
    dirs,            \* the study directories under DOWNLOAD_DIR
    files,           \* the instance files under DOWNLOAD_DIR that hold their whole
                     \* instance: <<StudyUID, instance>>
    pc,              \* where main is
    exitCode,        \* the exit status of the last process
    processed_uids,  \* main's set, loaded at the start of the run
    start_time,      \* now - QUERY_WINDOW
    study_ids,       \* what post_tools_find returned
    idx,             \* the candidate the detector is at
    new_studies,     \* the detector's result, then new_studies_to_process
    pos,             \* the study of new_studies_to_process main is at
    cur_uid,         \* study_uid of retrieve_and_save_study
    instance_count,  \* instance_count of retrieve_and_save_study
    \* history, for the statements about the past
    fault,           \* the first failure of this run, "none" if none
    lastSeen,        \* the candidate examined last: what the catalog held for it, the line printed
    selected,        \* the studies the detector has put into its result in this run
    missed,          \* candidates the catalog held as new that the detector never examined
    unexamined,      \* how many candidates the detector never examined
    downloaded,      \* an instance was fetched and written in this run
    incident,        \* the last pass of this run that stopped short: [kind, at], kind "partial"
                     \* (some instance written, not all) or "crashed" (killed after the last
                     \* instance, before the ledger append returned)
    prev,            \* the previous run: [end, kind, at], end "none", "clean" (exit code 0, no
                     \* failure), "failed" (exit code 0, some failure) or "died", and its incident
    prevSelected,    \* selected of the first run, kept for the second (SpecTwice)
    probe,           \* a study timestamp put to the two filters of the detector (SpecFilter)
    other            \* a second process running main at the same time (SpecOverlap):
                     \* [pc, loaded, seen, at, count, open]

vars == <<ledger, dirs, files, pc, exitCode, processed_uids, start_time, study_ids, idx,
          new_studies, pos, cur_uid, instance_count, fault, lastSeen, selected, missed,
          unexamined, downloaded, incident, prev, prevSelected, probe, other>>

disk == <<ledger, dirs, files>>
past == <<prev, prevSelected, probe, other>>

NoOther == [pc |-> "idle", loaded |-> {}, seen |-> {}, at |-> 0, count |-> 0, open |-> FALSE]

NoProbe == [day |-> 0, tick |-> 0, coarse |-> FALSE, precise |-> FALSE, tried |-> FALSE]

NoIncident == [kind |-> "none", at |-> 0]

NoSeen == [id |-> 0, uid |-> Absent, stamp |-> "none", line |-> ""]

Running == pc \notin {"idle", "done"}

\* The study retrieve_and_save_study is working on.
CurStudy == new_studies[pos]

Init ==
    /\ ledger = [exists |-> FALSE, text |-> <<>>]
    /\ dirs = {}
    /\ files = {}
    /\ pc = "idle"
    /\ exitCode = 0
    /\ processed_uids = {}
    /\ start_time = 0
    /\ study_ids = <<>>
    /\ idx = 0
    /\ new_studies = <<>>
    /\ pos = 0
    /\ cur_uid = Absent
    /\ instance_count = 0
    /\ fault = "none"
    /\ lastSeen = NoSeen
    /\ selected = {}
    /\ missed = {}
    /\ unexamined = 0
    /\ downloaded = FALSE
    /\ incident = NoIncident
    /\ prev = [end |-> "none", kind |-> "none", at |-> 0]
    /\ prevSelected = {}
    /\ probe = NoProbe
    /\ other = NoOther

\* What the catalog holds for a candidate, in the words of the specification.
HasUid(m) == m.uid # Absent
StampClass(m, start) ==
    IF m.date = Absent THEN "absent"
    ELSE IF ~(m.date[1].ok /\ StudyTimeOf(m).ok) THEN "unparsable"
    ELSE IF (m.date[1].day * TicksPerDay) + StudyTimeOf(m).tick >= start THEN "inwindow"
    ELSE "old"

\* The process is gone: its locals with it.
Exit(code) ==
    /\ pc' = "done"
    /\ exitCode' = code
    /\ start_time' = 0
    /\ study_ids' = <<>>
    /\ idx' = 0
    /\ new_studies' = <<>>
    /\ pos' = 0
    /\ cur_uid' = Absent
    /\ instance_count' = 0
    /\ lastSeen' = NoSeen
    /\ missed' = {}
    /\ unexamined' = 0

\* main, lines 142-151: load the ledger, build the client (no request is sent yet).
Start(keep) ==
    /\ pc \in {"idle", "done"}
    /\ pc' = "query"
    /\ processed_uids' = load_processed_uids(ledger)
    /\ prev' = [end |-> IF pc = "idle" THEN "none"
                        ELSE IF exitCode # 0 THEN "died"
                        ELSE IF fault = "none" THEN "clean" ELSE "failed",
                kind |-> incident.kind, at |-> incident.at]
    /\ prevSelected' = IF keep THEN selected ELSE prevSelected
    /\ probe' = probe
    /\ other' = other
    /\ exitCode' = 0
    /\ fault' = "none"
    /\ selected' = {}
    /\ downloaded' = FALSE
    /\ incident' = NoIncident
    /\ UNCHANGED <<disk, start_time, study_ids, idx, new_studies, pos,
                   cur_uid, instance_count, lastSeen, missed, unexamined>>

\* A run begins.
StartRun == Start(FALSE)

\* The second of two runs in succession begins (or the first).
StartTwice ==
    /\ pc = "done" => prev.end = "none"
    /\ Start(TRUE)

\* query_for_new_studies, lines 44-67: the find request answers.
QueryOk ==
    /\ pc = "query"
    /\ \E ids \in CandidateLists, now \in NowValues :
        /\ study_ids' = ids
        /\ start_time' = now - QUERY_WINDOW
    /\ idx' = 1
    /\ new_studies' = <<>>
    /\ pc' = "detect"
    /\ UNCHANGED <<disk, past, exitCode, processed_uids, pos, cur_uid, instance_count,
                   fault, lastSeen, selected, missed, unexamined, downloaded, incident>>

\* The find request raises (httpx.ConnectError or any other exception): caught at
\* line 103, the empty list is returned, main prints "No new studies" and returns.
QueryFails ==
    /\ pc = "query"
    /\ fault' = "catalog"
    /\ Exit(0)
    /\ UNCHANGED <<disk, past, processed_uids, selected, downloaded, incident>>

\* As DetectStep, a study found put in front of the result.
DetectStepPrepends ==
    /\ pc = "detect"
    /\ idx <= Len(study_ids)
    /\ LET r == study_ids[idx] IN
       \E m \in MetaValues(r) :
         LET v == Examine(m, processed_uids, start_time) IN
           /\ new_studies' = IF v = "Found" THEN <<r>> \o new_studies ELSE new_studies
           /\ lastSeen' = [id |-> r, uid |-> m.uid,
                           stamp |-> IF HasUid(m) THEN StampClass(m, start_time) ELSE "none",
                           line |-> PrintedBy(v)]
           /\ selected' = IF v = "Found" THEN selected \cup {r} ELSE selected
    /\ idx' = idx + 1
    /\ UNCHANGED <<disk, past, pc, exitCode, processed_uids, start_time, study_ids, pos,
                   cur_uid, instance_count, fault, missed, unexamined, downloaded, incident>>

\* One turn of the loop at lines 69-101, the metadata GET having answered m.
DetectStep ==
    /\ pc = "detect"
    /\ idx <= Len(study_ids)
    /\ LET r == study_ids[idx] IN
       \E m \in MetaValues(r) :
         LET v == Examine(m, processed_uids, start_time) IN
           /\ new_studies' = IF v = "Found" THEN Append(new_studies, r) ELSE new_studies
           /\ lastSeen' = [id |-> r, uid |-> m.uid,
                           stamp |-> IF HasUid(m) THEN StampClass(m, start_time) ELSE "none",
                           line |-> PrintedBy(v)]
           /\ selected' = IF v = "Found" THEN selected \cup {r} ELSE selected
    /\ idx' = idx + 1
    /\ UNCHANGED <<disk, past, pc, exitCode, processed_uids, start_time, study_ids, pos,
                   cur_uid, instance_count, fault, missed, unexamined, downloaded, incident>>

\* The metadata GET of a candidate raises: caught at line 103, outside the loop,
\* so the loop is over and the studies found so far are returned.  ms are the
\* candidates behind it that the catalog holds as new.
DetectFails ==
    /\ pc = "detect"
    /\ idx <= Len(study_ids)
    /\ \E ms \in SUBSET {study_ids[i] : i \in (idx + 1)..Len(study_ids)} :
        /\ \A r \in ms : UidOf(r) \notin processed_uids
        /\ missed' = ms
    /\ unexamined' = Len(study_ids) - idx
    /\ fault' = "metadata"
    /\ pc' = "select"
    /\ start_time' = 0
    /\ study_ids' = <<>>
    /\ idx' = 0
    /\ lastSeen' = NoSeen
    /\ UNCHANGED <<disk, past, exitCode, processed_uids, new_studies, pos, cur_uid,
                   instance_count, selected, downloaded, incident>>

\* The loop is through: line 106 returns new_studies.
DetectReturn ==
    /\ pc = "detect"
    /\ idx > Len(study_ids)
    /\ pc' = "select"
    /\ start_time' = 0
    /\ study_ids' = <<>>
    /\ idx' = 0
    /\ lastSeen' = NoSeen
    /\ UNCHANGED <<disk, past, exitCode, processed_uids, new_studies, pos, cur_uid,
                   instance_count, fault, selected, missed, unexamined, downloaded, incident>>

\* main, lines 153-159: nothing to do, or the retrieval loop begins.
Select ==
    /\ pc = "select"
    /\ IF new_studies = <<>>
       THEN Exit(0)
       ELSE /\ pc' = "retrieve"
            /\ pos' = 1
            /\ missed' = {}
            /\ unexamined' = 0
            /\ UNCHANGED <<exitCode, start_time, study_ids, idx, new_studies, cur_uid,
                           instance_count, lastSeen>>
    /\ UNCHANGED <<disk, past, processed_uids, fault, selected, downloaded, incident>>

\* The for loop of main, lines 161-169, moves to the next study, or main returns.
NextStudy ==
    IF pos = Len(new_studies)
    THEN Exit(0)
    ELSE /\ pc' = "retrieve"
         /\ pos' = pos + 1
         /\ cur_uid' = Absent
         /\ instance_count' = 0
         /\ UNCHANGED <<exitCode, start_time, study_ids, idx, new_studies, lastSeen, missed,
                        unexamined>>

\* As RetrieveBegin, the instances already on disk not fetched again.
RetrieveBeginSkipsExisting ==
    /\ pc = "retrieve"
    /\ LET made == MakeDirs(dirs, UidOf(CurStudy))
           have == Cardinality(InstanceFiles(UidOf(CurStudy)) \cap files)
       IN /\ made.ok
          /\ dirs' = made.dirs
          /\ instance_count' = have
          /\ pc' = IF have = NumInstances THEN "mark" ELSE "fetch"
    /\ cur_uid' = UidOf(CurStudy)
    /\ UNCHANGED <<ledger, files, past, exitCode, processed_uids, start_time, study_ids,
                   idx, new_studies, pos, fault, lastSeen, selected, missed, unexamined,
                   downloaded, incident>>

\* retrieve_and_save_study, lines 113-121: the StudyUID is read again, the
\* directory made.
RetrieveBegin ==
    /\ pc = "retrieve"
    /\ LET made == MakeDirs(dirs, UidOf(CurStudy)) IN
        /\ made.ok
        /\ dirs' = made.dirs
    /\ cur_uid' = UidOf(CurStudy)
    /\ instance_count' = 0
    /\ pc' = "fetch"
    /\ UNCHANGED <<ledger, files, past, exitCode, processed_uids, start_time, study_ids,
                   idx, new_studies, pos, fault, lastSeen, selected, missed, unexamined,
                   downloaded, incident>>

\* Anything raised before the first instance (the metadata GET, a StudyUID that
\* is None, makedirs, listing the series): caught at line 134, None returned.
RetrieveBeginFails ==
    /\ pc = "retrieve"
    /\ fault' = IF MakeDirs(dirs, UidOf(CurStudy)).ok /\ fault = "none" THEN "retrieve" ELSE fault
    /\ NextStudy
    /\ UNCHANGED <<disk, past, processed_uids, selected, downloaded, incident>>

\* Lines 123-129: one instance is fetched and written; after the last one the
\* StudyUID is returned (line 132).
FetchInstance ==
    /\ pc = "fetch"
    /\ LET w == WriteFile(files, <<cur_uid, instance_count + 1>>) IN
        /\ w.ok
        /\ files' = w.files
    /\ instance_count' = instance_count + 1
    /\ downloaded' = TRUE
    /\ pc' = IF instance_count + 1 = NumInstances THEN "mark" ELSE "fetch"
    /\ UNCHANGED <<ledger, dirs, past, exitCode, processed_uids, start_time, study_ids,
                   idx, new_studies, pos, cur_uid, fault, lastSeen, selected, missed,
                   unexamined, incident>>

\* As FetchFails, the exception not caught in retrieve_and_save_study.
FetchFailsAborts ==
    /\ pc = "fetch"
    /\ fault' = IF fault = "none" THEN "retrieve" ELSE fault
    /\ Exit(1)
    /\ UNCHANGED <<disk, past, processed_uids, selected, downloaded, incident>>

\* As FetchFails, the StudyUID returned all the same.
FetchFailsReturnsUid ==
    /\ pc = "fetch"
    /\ fault' = IF fault = "none" THEN "retrieve" ELSE fault
    /\ pc' = "mark"
    /\ UNCHANGED <<disk, past, exitCode, processed_uids, start_time, study_ids, idx,
                   new_studies, pos, cur_uid, instance_count, lastSeen, selected, missed,
                   unexamined, downloaded, incident>>

\* get_file, open or write raises: caught at line 134, None returned, the
\* instances written so far stay on disk.
FetchFails ==
    /\ pc = "fetch"
    /\ fault' = IF WriteFile(files, <<cur_uid, instance_count + 1>>).ok /\ fault = "none"
                THEN "retrieve" ELSE fault
    /\ incident' = IF instance_count > 0 THEN [kind |-> "partial", at |-> CurStudy]
                    ELSE incident
    /\ NextStudy
    /\ UNCHANGED <<disk, past, processed_uids, selected, downloaded>>

\* main, lines 166-169: the StudyUID came back, it is appended to the ledger.
Mark ==
    /\ pc = "mark"
    /\ ledger' = save_processed_uid(ledger, cur_uid)
    /\ NextStudy
    /\ UNCHANGED <<dirs, files, past, processed_uids, fault, selected, downloaded, incident>>

\* The append raises OSError: nothing in the loop catches it, main's
\* "except Exception" (line 174) prints and calls sys.exit(1).
MarkFails ==
    /\ pc = "mark"
    /\ fault' = "ledger"
    /\ Exit(1)
    /\ UNCHANGED <<disk, past, processed_uids, selected, downloaded, incident>>

\* The process is killed from outside.
Kill ==
    /\ Running
    /\ incident' = IF pc = "mark" THEN [kind |-> "crashed", at |-> CurStudy]
                    ELSE IF pc = "fetch" /\ instance_count > 0
                    THEN [kind |-> "partial", at |-> CurStudy]
                    ELSE incident
    /\ Exit(137)
    /\ fault' = "none"
    /\ selected' = {}
    /\ downloaded' = FALSE
    /\ UNCHANGED <<disk, past, processed_uids>>

Next ==
    \/ StartRun
    \/ QueryOk
    \/ QueryFails
    \/ DetectStep
    \/ DetectFails
    \/ DetectReturn
    \/ Select
    \/ RetrieveBegin
    \/ RetrieveBeginFails
    \/ FetchInstance
    \/ FetchFails
    \/ Mark
    \/ MarkFails
    \/ Kill

Spec == Init /\ [][Next]_vars

\* Two runs in succession, each to its end.
NextTwice ==
    \/ StartTwice
    \/ QueryOk
    \/ QueryFails
    \/ DetectStep
    \/ DetectFails
    \/ DetectReturn
    \/ Select
    \/ RetrieveBegin
    \/ RetrieveBeginFails
    \/ FetchInstance
    \/ FetchFails
    \/ Mark
    \/ MarkFails

SpecTwice == Init /\ [][NextTwice]_vars

\* ------------------------------------------- a ledger found by the first run
\* A line of a ledger file: a StudyUID or a blank line.
BlankLines == {<<>>, <<" ">>}
LineContents == {UidOf(r) : r \in RemoteIDs} \cup BlankLines

\* The file as open(..., 'a') and write(line + '\n') leave it.
WithLine(file, l) == [exists |-> TRUE, text |-> file.text \o l \o <<Newline>>]

\* Before the first run the ledger file gets one more line.
Preload ==
    /\ pc = "idle"
    /\ Len(SplitLines(ledger.text)) < MaxLines
    /\ \E l \in LineContents : ledger' = WithLine(ledger, l)
    /\ UNCHANGED <<dirs, files, past, pc, exitCode, processed_uids, start_time, study_ids,
                   idx, new_studies, pos, cur_uid, instance_count, fault, lastSeen, selected,
                   missed, unexamined, downloaded, incident>>

\* The first run begins.
StartLoaded ==
    /\ pc = "idle"
    /\ Start(FALSE)

\* The first run, up to the choice of the studies to retrieve, on any ledger
\* file of whole lines.
NextLoad ==
    \/ Preload
    \/ StartLoaded
    \/ QueryOk
    \/ DetectStep
    \/ DetectReturn
    \/ Select

SpecLoad == Init /\ [][NextLoad]_vars

\* -------------------------------------------- the two filters of the detector
\* datetime.now() of the runs tried: half past midnight, 01:00:00, 12:00:00
\* and 23:59:59.5 of days 1 and 2.
ProbeNows ==
    {(d * TicksPerDay) + t : d \in {1, 2},
                            t \in {TicksPerHour \div 2, TicksPerHour, 12 * TicksPerHour,
                                   TicksPerDay - 1}}
ProbeDays == 0..MaxDay
ProbeTimes == {0, (11 * TicksPerHour) + 1, 23 * TicksPerHour, TicksPerDay - 1}

\* The metadata of a study of day d, time of day t.
StudyAt(d, t) ==
    [uid |-> UidOf(1), date |-> <<[ok |-> TRUE, day |-> d]>>, time |-> <<[ok |-> TRUE, tick |-> t]>>]

InitFilter ==
    /\ ledger = [exists |-> FALSE, text |-> <<>>]
    /\ dirs = {}
    /\ files = {}
    /\ pc = "detect"
    /\ exitCode = 0
    /\ processed_uids = {}
    /\ start_time \in {now - QUERY_WINDOW : now \in ProbeNows}
    /\ study_ids = <<>>
    /\ idx = 1
    /\ new_studies = <<>>
    /\ pos = 0
    /\ cur_uid = Absent
    /\ instance_count = 0
    /\ fault = "none"
    /\ lastSeen = NoSeen
    /\ selected = {}
    /\ missed = {}
    /\ unexamined = 0
    /\ downloaded = FALSE
    /\ incident = NoIncident
    /\ prev = [end |-> "none", kind |-> "none", at |-> 0]
    /\ prevSelected = {}
    /\ probe = NoProbe
    /\ other = NoOther

\* A study is put to the filter sent to the catalog (lines 50-58) and to the
\* test of the loop (lines 84-97).
ApplyFilters ==
    /\ \E d \in ProbeDays, t \in ProbeTimes :
        probe' = [day |-> d, tick |-> t,
                  coarse |-> CoarseFilter(d, QueryDate(start_time)),
                  precise |-> Examine(StudyAt(d, t), processed_uids, start_time) = "Found",
                  tried |-> TRUE]
    /\ UNCHANGED <<disk, prev, prevSelected, other, pc, exitCode, processed_uids, start_time,
                   study_ids, idx, new_studies, pos, cur_uid, instance_count, fault, lastSeen,
                   selected, missed, unexamined, downloaded, incident>>

SpecFilter == InitFilter /\ [][ApplyFilters]_vars

\* ----------------------------------------------------- two runs at a time
\* What a step of the second process leaves alone: the first process and the
\* history of its runs.
first == <<pc, exitCode, processed_uids, start_time, study_ids, idx, new_studies, pos,
           cur_uid, instance_count, fault, lastSeen, selected, missed, unexamined,
           downloaded, incident, prev, prevSelected, probe>>

\* The instance file the second process is at.
OtherFile == <<UidOf(other.at), other.count + 1>>

\* main, line 146, in the second process.
OtherStart ==
    /\ other.pc = "idle"
    /\ other' = [other EXCEPT !.pc = "select", !.loaded = load_processed_uids(ledger)]
    /\ UNCHANGED <<disk, first>>

\* The second process has found r new (its StudyUID not in the set it loaded),
\* comes to it in its list, and retrieve_and_save_study, lines 113-121, begins.
OtherRetrieve ==
    /\ other.pc = "select"
    /\ \E r \in RemoteIDs \ other.seen :
        /\ UidOf(r) \notin other.loaded
        /\ other' = [other EXCEPT !.pc = "fetch", !.seen = other.seen \cup {r}, !.at = r,
                                  !.count = 0, !.open = FALSE]
        /\ dirs' = MakeDirs(dirs, UidOf(r)).dirs
    /\ UNCHANGED <<ledger, files, first>>

\* Line 127: open(instance_path, 'wb') leaves the file empty.
OtherOpen ==
    /\ other.pc = "fetch"
    /\ ~other.open
    /\ other' = [other EXCEPT !.open = TRUE]
    /\ files' = files \ {OtherFile}
    /\ UNCHANGED <<ledger, dirs, first>>

\* Lines 128-132: the bytes are written and the file closed.
OtherWrite ==
    /\ other.pc = "fetch"
    /\ other.open
    /\ files' = WriteFile(files, OtherFile).files
    /\ other' = [other EXCEPT !.open = FALSE, !.count = other.count + 1,
                              !.pc = IF other.count + 1 = NumInstances THEN "mark" ELSE "fetch"]
    /\ UNCHANGED <<ledger, dirs, first>>

\* Line 167 in the second process, which then looks at its next study.
OtherMark ==
    /\ other.pc = "mark"
    /\ ledger' = save_processed_uid(ledger, UidOf(other.at))
    /\ other' = [other EXCEPT !.pc = "select", !.at = 0, !.count = 0]
    /\ UNCHANGED <<dirs, files, first>>

\* The second process fails, is killed or returns.
OtherStops ==
    /\ other.pc \notin {"idle", "done"}
    /\ other' = [NoOther EXCEPT !.pc = "done"]
    /\ UNCHANGED <<disk, first>>

\* A run of the first process without failure, and a run of a second process
\* at the same time.
NextOverlap ==
    \/ StartLoaded
    \/ QueryOk
    \/ DetectStep
    \/ DetectReturn
    \/ Select
    \/ RetrieveBegin
    \/ FetchInstance
    \/ Mark
    \/ OtherStart
    \/ OtherRetrieve
    \/ OtherOpen
    \/ OtherWrite
    \/ OtherMark
    \/ OtherStops

SpecOverlap == Init /\ [][NextOverlap]_vars

\* ------------------------------------- one StudyUID under several RemoteIDs
\* The StudyInstanceUID the archive holds for every RemoteID.
SharedUid == UidOf(1)
SharedMetaValues == [uid : {Absent, SharedUid}, date : DateTags, time : TimeTags]

\* DetectStep, the archive holding SharedUid for the candidate.
DetectStepShared ==
    /\ pc = "detect"
    /\ idx <= Len(study_ids)
    /\ LET r == study_ids[idx] IN
       \E m \in SharedMetaValues :
         LET v == Examine(m, processed_uids, start_time) IN
           /\ new_studies' = IF v = "Found" THEN Append(new_studies, r) ELSE new_studies
           /\ lastSeen' = [id |-> r, uid |-> m.uid,
                           stamp |-> IF HasUid(m) THEN StampClass(m, start_time) ELSE "none",
                           line |-> PrintedBy(v)]
           /\ selected' = IF v = "Found" THEN selected \cup {r} ELSE selected
    /\ idx' = idx + 1
    /\ UNCHANGED <<disk, past, pc, exitCode, processed_uids, start_time, study_ids, pos,
                   cur_uid, instance_count, fault, missed, unexamined, downloaded, incident>>

\* RetrieveBegin, the archive holding SharedUid for the study.
RetrieveBeginShared ==
    /\ pc = "retrieve"
    /\ LET made == MakeDirs(dirs, SharedUid) IN
        /\ made.ok
        /\ dirs' = made.dirs
    /\ cur_uid' = SharedUid
    /\ instance_count' = 0
    /\ pc' = "fetch"
    /\ UNCHANGED <<ledger, files, past, exitCode, processed_uids, start_time, study_ids,
                   idx, new_studies, pos, fault, lastSeen, selected, missed, unexamined,
                   downloaded, incident>>

\* Runs without failure on an archive that holds one StudyUID under every RemoteID.
NextShared ==
    \/ StartRun
    \/ QueryOk
    \/ DetectStepShared
    \/ DetectReturn
    \/ Select
    \/ RetrieveBeginShared
    \/ FetchInstance
    \/ Mark

SpecShared == Init /\ [][NextShared]_vars

\* ------------------------------------------------- a ledger append cut short
\* The file holds whole lines, each a StudyUID.
WholeLines ==
    /\ IF ledger.text = <<>> THEN TRUE ELSE ledger.text[Len(ledger.text)] = Newline
    /\ load_processed_uids(ledger) \subseteq {UidOf(r) : r \in RemoteIDs}

\* The process is killed inside save_processed_uid, lines 34-35: a part of the
\* StudyUID is in the file, the rest and the newline are not.
KillTorn ==
    /\ pc = "mark"
    /\ WholeLines
    /\ \E n \in 1..(Len(cur_uid) - 1) :
        ledger' = [exists |-> TRUE, text |-> ledger.text \o SubSeq(cur_uid, 1, n)]
    /\ incident' = [kind |-> "crashed", at |-> CurStudy]
    /\ Exit(137)
    /\ fault' = "none"
    /\ selected' = {}
    /\ downloaded' = FALSE
    /\ UNCHANGED <<dirs, files, past, processed_uids>>

\* Runs without failure, one of them killed inside a ledger append.
NextTorn ==
    \/ StartRun
    \/ QueryOk
    \/ DetectStep
    \/ DetectReturn
    \/ Select
    \/ RetrieveBegin
    \/ FetchInstance
    \/ Mark
    \/ KillTorn

SpecTorn == Init /\ [][NextTorn]_vars

\* ------------------------------------------------------------- properties
Ledgered == load_processed_uids(ledger)

\* The studies of the detector's result that main has not yet dealt with.
Pending == {new_studies[i] : i \in (IF pos = 0 THEN 1 ELSE pos)..Len(new_studies)}

\* C1: a study whose StudyUID is in the ledger is never retrieved again, in
\* this run or a later one, whatever timestamp the catalog reports for it: it
\* is never among the studies the detector hands to the retriever or main has
\* still to retrieve, and no instance file is written for it.
ProcessedNeverRetrieved ==
    /\ [](\A r \in Pending : UidOf(r) \notin Ledgered)
    /\ [][instance_count' = instance_count + 1 =>
            /\ cur_uid = UidOf(CurStudy)
            /\ cur_uid \notin Ledgered
            /\ files' \ files \subseteq InstanceFiles(cur_uid)]_vars

\* C1 witness: the detector has just passed over a study of the ledger whose
\* timestamp is inside the window, after selecting another one.
ProcessedInWindowSkipped ==
    /\ pc = "detect"
    /\ lastSeen.uid # Absent
    /\ lastSeen.uid \in Ledgered
    /\ lastSeen.stamp = "inwindow"
    /\ lastSeen.id \notin Range(new_studies)
    /\ new_studies # <<>>

\* C2: a StudyUID is in the ledger only if every instance of the study is on
\* disk, and the ledger changes only by main appending the StudyUID of the
\* study whose retrieval pass has just written all its instances.
CommittedOnlyWhenComplete ==
    /\ [](\A u \in Ledgered : (\E r \in RemoteIDs : u = UidOf(r)) /\ InstanceFiles(u) \subseteq files)
    /\ [][ledger' # ledger =>
            /\ pc = "mark"
            /\ instance_count = NumInstances
            /\ InstanceFiles(cur_uid) \subseteq files
            /\ ledger' = save_processed_uid(ledger, cur_uid)
            /\ Ledgered' = Ledgered \cup {cur_uid}]_vars

\* C2 witness: a study was committed in this run, after an earlier pass of
\* it had stopped short.
CommittedInThisRun ==
    /\ prev.kind = "partial"
    /\ UidOf(prev.at) \in Ledgered \ processed_uids

\* C3: for a candidate with a StudyUID and a parsable timestamp T, the
\* detector puts it into its result if and only if T >= window start and the
\* StudyUID is not processed.
WindowCorrectness ==
    (pc = "detect" /\ lastSeen.id # 0 /\ lastSeen.uid # Absent
        /\ lastSeen.stamp \in {"inwindow", "old"})
    => (lastSeen.id \in Range(new_studies)
            <=> (lastSeen.stamp = "inwindow" /\ lastSeen.uid \notin processed_uids))

\* The run is over, it has met no failure and was not killed.
EndedClean == pc = "done" /\ exitCode = 0 /\ fault = "none"

PartialFailure ==
    /\ [](incident.kind = "partial" => UidOf(incident.at) \notin Ledgered)
    /\ [](pc = "mark" => instance_count = NumInstances)
    /\ [][(pc = "fetch" /\ pc' \notin {"fetch", "mark"} /\ exitCode' # 137) =>
            /\ ledger' = ledger
            /\ fault' # "none"]_vars
    /\ [][(pc = "retrieve" /\ pc' \notin {"retrieve", "done"}) =>
            /\ pc' = "fetch"
            /\ instance_count' = 0]_vars

\* C5 witness: the run after a pass of a study had stopped short has fetched
\* all instances of that study again.
RetrievedAgainInFull ==
    /\ pc = "mark"
    /\ prev.kind = "partial"
    /\ prev.at = CurStudy
    /\ instance_count = NumInstances

\* C6 as stated: of two runs in succession, the second selecting no study the
\* first had not selected, the second downloads nothing and leaves the ledger
\* as it found it.
Idempotence ==
    (pc = "done" /\ exitCode = 0 /\ prev.end \in {"clean", "failed"}
        /\ selected \subseteq prevSelected)
    => (~downloaded /\ Ledgered = processed_uids)

\* C6: of two runs in succession, the first without failure and the second
\* selecting no study the first had not selected, the second downloads
\* nothing and leaves the ledger as it found it.
IdempotenceAfterCleanRun ==
    (pc = "done" /\ exitCode = 0 /\ prev.end = "clean" /\ selected \subseteq prevSelected)
    => (~downloaded /\ Ledgered = processed_uids /\ selected = {})

\* C6 witness: the second run is over, the first one had committed studies.
SecondRunOver ==
    /\ pc = "done"
    /\ exitCode = 0
    /\ prev.end = "clean"
    /\ Cardinality(prevSelected) > 1
    /\ selected \subseteq prevSelected
    /\ Cardinality(processed_uids) > 1

\* C7: a run whose first catalog call fails ends with a non-zero exit code.
CatalogFailureIsFatal ==
    (pc = "done" /\ fault = "catalog") => exitCode # 0

\* C8: no per-study error ends the process: exit code 1 means the catalog
\* could not be reached.
OnlyCatalogFailureTerminates ==
    (pc = "done" /\ exitCode = 1) => fault = "catalog"

\* C9: a failing metadata read of one candidate leaves no later candidate
\* unexamined, and none the catalog holds as new out of the result.
MetadataFailureKeepsBatch ==
    (pc = "select" /\ fault = "metadata") => (unexamined = 0 /\ missed = {})

\* C10: a candidate without StudyUID gets a warning and is not selected, the
\* detector goes on to the next candidate with nothing else changed, and no
\* study without StudyUID is ever retrieved or put into the ledger.
NoUidNeverProcessed ==
    /\ []((pc = "detect" /\ lastSeen.id # 0 /\ lastSeen.uid = Absent) =>
            /\ lastSeen.line = "WarnNoUid"
            /\ lastSeen.id \notin Range(new_studies)
            /\ idx > 1
            /\ study_ids[idx - 1] = lastSeen.id)
    /\ [](Absent \notin Ledgered /\ (pc \in {"fetch", "mark"} => cur_uid # Absent))
    /\ [][(pc = "detect" /\ lastSeen'.id \notin {0, lastSeen.id} /\ lastSeen'.uid = Absent) =>
            /\ pc' = "detect"
            /\ idx' = idx + 1
            /\ UNCHANGED <<disk, study_ids, new_studies, selected, fault, exitCode>>]_vars

\* C10 witness: a candidate without StudyUID was passed over with a warning,
\* no failure has occurred and candidates remain for the detector.
NoUidSkippedRunGoesOn ==
    /\ pc = "detect"
    /\ lastSeen.id # 0
    /\ lastSeen.uid = Absent
    /\ lastSeen.line = "WarnNoUid"
    /\ idx <= Len(study_ids)
    /\ fault = "none"

\* C11: when save_processed_uid has returned, the StudyUID is in what
\* load_processed_uids reads from the file; killing the process changes
\* nothing of the file; and every run starts from what load_processed_uids
\* reads from the file as it then is.
DurableOnReturn ==
    /\ [][(pc = "mark" /\ pc' # "mark" /\ exitCode' = 0) => cur_uid \in Ledgered']_vars
    /\ [][exitCode' = 137 => ledger' = ledger]_vars
    /\ [][(pc \in {"idle", "done"} /\ pc' = "query") =>
            (ledger' = ledger /\ processed_uids' = Ledgered)]_vars

\* C11 witness: the process was killed after save_processed_uid had returned
\* in that run, and the StudyUID is read from the file.
KilledAfterCommit ==
    /\ pc = "done"
    /\ exitCode = 137
    /\ Ledgered \ processed_uids # {}

\* C12: no step removes a StudyUID from what load_processed_uids reads, removes
\* the file, or changes a character already in it: the file only grows at its
\* end.
LedgerAppendOnly ==
    [][ledger' # ledger =>
         (/\ Ledgered \subseteq Ledgered'
          /\ ledger.exists => ledger'.exists
          /\ Len(ledger'.text) >= Len(ledger.text)
          /\ SubSeq(ledger'.text, 1, Len(ledger.text)) = ledger.text)]_vars

\* C12 witness: a run after a killed one has loaded a ledger that is not
\* empty and has appended to it.
LedgerGrownAcrossRuns ==
    /\ prev.end = "died"
    /\ processed_uids # {}
    /\ Ledgered \ processed_uids # {}

\* C13: load_processed_uids reads the empty set when there is no file; a line
\* more in the file adds that line to what it reads if the line is not blank
\* and nothing if it is blank or already there; appending a StudyUID that is
\* already read changes nothing of what is read; and no study whose StudyUID
\* is read from the file, once or several times, is selected for retrieval.
LoadIsSetOfLines ==
    /\ [](~ledger.exists => Ledgered = {})
    /\ [][\A l \in LineContents :
            ledger' = WithLine(ledger, l) =>
                Ledgered' = Ledgered \cup (IF l \in BlankLines THEN {} ELSE {l})]_vars
    /\ [](\A u \in Ledgered : load_processed_uids(save_processed_uid(ledger, u)) = Ledgered)
    /\ [](\A r \in Pending : UidOf(r) \notin Ledgered)

\* C13 witness: the file holds a StudyUID twice and ends with a blank line,
\* and the detector has passed over the study, its timestamp inside the window.
DuplicateLineSkipped ==
    /\ ledger.text = UidOf(1) \o <<Newline>> \o UidOf(1) \o <<Newline, Newline>>
    /\ processed_uids = {UidOf(1)}
    /\ pc = "detect"
    /\ lastSeen.uid = UidOf(1)
    /\ lastSeen.stamp = "inwindow"
    /\ lastSeen.id \notin Range(new_studies)

\* The place of a candidate in what the catalog query returned.
PlaceOf(r) == CHOOSE i \in DOMAIN study_ids : study_ids[i] = r

\* C14: when retrieve_and_save_study fails for a study, main goes on to the
\* study behind it in the list, or returns if there is none; a study retrieved
\* after a failure is appended to the ledger; and a run whose failures are
\* retrieval failures only ends with exit code 0.
RetrievalFailureNotFatal ==
    /\ [][(pc \in {"retrieve", "fetch"} /\ fault' # "none" /\ exitCode' # 137
              /\ pc' \notin {"fetch", "mark"}) =>
            IF pos < Len(new_studies)
            THEN pc' = "retrieve" /\ pos' = pos + 1 /\ new_studies' = new_studies
            ELSE pc' = "done" /\ exitCode' = 0]_vars
    /\ [][(pc = "mark" /\ fault = "retrieve" /\ pc' # "mark" /\ exitCode' = 0) =>
            Ledgered' = Ledgered \cup {cur_uid}]_vars
    /\ []((pc = "done" /\ fault = "retrieve") => exitCode = 0)

\* C14 witness: after the retrieval of a study has failed in this run, a
\* study behind it in the list is retrieved and ready to be committed.
RetrievedAfterFailure ==
    /\ pc = "mark"
    /\ pos > 1
    /\ fault = "retrieve"
    /\ UidOf(new_studies[1]) \notin Ledgered

\* C15: nothing is fetched or committed before the detector has returned; the
\* detector's result keeps the order of the catalog's answer; main walks that
\* result one study at a time, from the first and forward by one; every study
\* before the one in retrieval is committed or has failed, and none behind it
\* is committed.
OneAtATimeInOrder ==
    /\ [](pc \in {"query", "detect", "select"} => (~downloaded /\ Ledgered = processed_uids))
    /\ [](pc = "detect" =>
            /\ Range(new_studies) \subseteq {study_ids[i] : i \in 1..(idx - 1)}
            /\ \A i, j \in DOMAIN new_studies :
                   i < j => PlaceOf(new_studies[i]) < PlaceOf(new_studies[j]))
    /\ [](pc \in {"retrieve", "fetch", "mark"} =>
            /\ pos \in DOMAIN new_studies
            /\ pc # "retrieve" => cur_uid = UidOf(CurStudy)
            /\ \A i \in 1..(pos - 1) : UidOf(new_studies[i]) \in Ledgered \/ fault # "none"
            /\ \A i \in (pos + 1)..Len(new_studies) : UidOf(new_studies[i]) \notin Ledgered)
    /\ [][(pc = "retrieve" \/ pc = "fetch" \/ pc = "mark") =>
            (\/ (pos' = pos /\ new_studies' = new_studies)
             \/ (/\ pos' = pos + 1
                 /\ new_studies' = new_studies
                 /\ pc' = "retrieve"
                 /\ pc = "mark" => Ledgered' = Ledgered \cup {cur_uid})
             \/ pc' = "done")]_vars

\* C15 witness: the first study of the list is committed in this run and the
\* second is about to have its first instance fetched.
SecondAfterFirstCommitted ==
    /\ pc = "fetch"
    /\ pos = 2
    /\ instance_count = 0
    /\ UidOf(new_studies[1]) \in Ledgered \ processed_uids

\* C16: a candidate that is not processed and is left out because its
\* timestamp is absent or unparsable gets a warning.
NoSilentSkip ==
    (pc = "detect" /\ lastSeen.id # 0 /\ lastSeen.uid # Absent
        /\ lastSeen.uid \notin processed_uids
        /\ lastSeen.stamp \in {"absent", "unparsable"})
    => lastSeen.line = "WarnParse"

\* C17: a study whose timestamp is at or after the window start passes the
\* date filter sent to the catalog, and so does every study the test of the
\* loop accepts.
CoarseIsSuperset ==
    probe.tried =>
        /\ ((probe.day * TicksPerDay) + probe.tick >= start_time) => probe.coarse
        /\ probe.precise => probe.coarse

\* C17 witness: a study of the day of the window start, at or after the
\* window start, the window not starting at midnight, passes both filters,
\* and an earlier study of that day passes the date filter only.
SameDayInWindow ==
    /\ probe.tried
    /\ probe.day = QueryDate(start_time)
    /\ start_time % TicksPerDay # 0
    /\ (probe.day * TicksPerDay) + probe.tick >= start_time
    /\ probe.coarse
    /\ probe.precise
    /\ CoarseFilter(probe.day, QueryDate(start_time))
    /\ ~InWindowTest(probe.day * TicksPerDay, start_time)

\* A run is retrieving study r.
Retrieving(r) ==
    \/ pc \in {"retrieve", "fetch", "mark"} /\ CurStudy = r
    \/ other.pc \in {"fetch", "mark"} /\ other.at = r

\* C18: with two runs at a time, a study that is in the ledger and that no
\* run is retrieving has every instance file whole on disk.
OverlapKeepsFilesWhole ==
    \A r \in RemoteIDs :
        (UidOf(r) \in Ledgered /\ ~Retrieving(r)) => InstanceFiles(UidOf(r)) \subseteq files

\* How many lines of the ledger file hold StudyUID u.
LinesOf(u) ==
    Cardinality({i \in DOMAIN SplitLines(ledger.text) : Strip(SplitLines(ledger.text)[i]) = u})

\* C19: within a run no StudyUID that the run has already committed is
\* retrieved again, and no StudyUID is appended to the ledger twice, also when
\* several RemoteIDs carry the same StudyUID.
OncePerRun ==
    /\ pc \in {"fetch", "mark"} => cur_uid \notin Ledgered \ processed_uids
    /\ \A u \in Ledgered : LinesOf(u) <= 1

\* C20: after an append that was cut short, a run that ends without failure
\* has every study it selected in what load_processed_uids reads.
TornLineHarmless ==
    EndedClean => \A r \in selected : UidOf(r) \in Ledgered

====
